---- MODULE Spec2Model ----
(***************************************************************************)
(* Model of the YouTube scraping pipeline of app/scrapers:                 *)
(*   - YouTubeScraper.get_channel_id_from_url and its page lookups,        *)
(*   - YouTubeScraper.fetch_channel_feed / _parse_entry_to_video,          *)
(*   - YouTubeScraper.get_latest_videos, get_transcript,                   *)
(*     get_videos_with_transcripts,                                        *)
(*   - resolve_channel_ids and main of app/scrapers/__main__.py,           *)
(*   - get_single_transcript of app/services/youtube.py.                   *)
(*                                                                         *)
(* Text is modelled as a sequence of tokens (each token stands for a run   *)
(* of characters that the regular expressions and the split calls of the   *)
(* code never cut in two).  An Optional value is None (<<>>) or Some(x)    *)
(* (<<x>>); an exception that leaves a function is the field exc of the    *)
(* function's outcome.                                                     *)
(***************************************************************************)
EXTENDS Integers, Sequences, FiniteSets, TLC

\* ------------------------------------------------------------------ bounds
MaxChannels == 2
MaxEntries == 2
MaxCap == 2
MaxRefs == 2

\* ------------------------------------------------------- Optional values
None == <<>>
Some(x) == <<x>>
IsNone(o) == o = <<>>
IsSome(o) == o # <<>>
Get(o) == o[1]

\* Sequences over S of length at most n.
SeqUpTo(S, n) == UNION {[1..k -> S] : k \in 0..n}

\* ------------------------------------------------------------ Python text
\* str.rstrip("/") : drop the trailing "/" tokens.
RECURSIVE rstrip_slash(_)
rstrip_slash(s) ==
    IF s # <<>> /\ s[Len(s)] = "/" THEN rstrip_slash(SubSeq(s, 1, Len(s) - 1)) ELSE s

\* seq[:n] of Python, n negative counting from the end.
PySliceTo(s, n) ==
    IF n >= 0
    THEN SubSeq(s, 1, IF n < Len(s) THEN n ELSE Len(s))
    ELSE SubSeq(s, 1, IF Len(s) + n > 0 THEN Len(s) + n ELSE 0)

\* s.split(sep)[-1] : what follows the last occurrence of the token sep.
AfterLast(s, sep) ==
    LET hits == {i \in 1..Len(s) : s[i] = sep}
        last == IF hits = {} THEN 0 ELSE CHOOSE i \in hits : \A j \in hits : j <= i
    IN  SubSeq(s, last + 1, Len(s))

\* s.split(sep)[0] : what precedes the first occurrence of the token sep.
BeforeFirst(s, sep) ==
    LET hits == {i \in 1..Len(s) : s[i] = sep}
        first == IF hits = {} THEN Len(s) + 1 ELSE CHOOSE i \in hits : \A j \in hits : i <= j
    IN  SubSeq(s, 1, first - 1)

\* "\n".join(parts)
RECURSIVE JoinNewline(_)
JoinNewline(parts) ==
    IF parts = <<>> THEN <<>>
    ELSE IF Len(parts) = 1 THEN <<parts[1]>>
    ELSE <<parts[1], "\n">> \o JoinNewline(Tail(parts))

\* ------------------------------------------------------ regular expressions
\* Tokens made only of the characters of the class [a-zA-Z0-9_-].
IdToks == {"channel", "c", "user", "UC", "HC", "x", "y", "name", "videos"}

\* The alternation (?:youtube\.com|youtu\.be).
YTHosts == {"youtube.com", "youtu.be"}

\* The longest run of [a-zA-Z0-9_-] tokens of t that starts at position j.
RECURSIVE IdRun(_, _)
IdRun(t, j) ==
    IF j <= Len(t) /\ t[j] \in IdToks THEN <<t[j]>> \o IdRun(t, j + 1) ELSE <<>>

\* A pattern is [lits, head, tail]: the literal part before the group (a
\* sequence of token sets), the literal start of the group, and the literal
\* part after the group; the rest of the group is [a-zA-Z0-9_-]+.
CHANNEL_ID_PATTERN ==
    [lits |-> <<YTHosts, {"/"}, {"channel"}, {"/"}>>, head |-> <<>>, tail |-> <<>>]
BROWSE_ID_PATTERN ==
    [lits |-> <<{"browseId:"}, {"QUOTE"}>>, head |-> <<"UC">>, tail |-> <<"QUOTE">>]
HANDLE_PATTERN ==
    [lits |-> <<YTHosts, {"/"}, {"@"}>>, head |-> <<>>, tail |-> <<>>]
CUSTOM_PATTERN ==
    [lits |-> <<YTHosts, {"/"}, {"c"}, {"/"}>>, head |-> <<>>, tail |-> <<>>]
USER_PATTERN ==
    [lits |-> <<YTHosts, {"/"}, {"user"}, {"/"}>>, head |-> <<>>, tail |-> <<>>]

\* Whether the pattern matches text at position i (re.match at i).
MatchesAt(text, pattern, i) ==
    LET nl == Len(pattern.lits)
        nh == Len(pattern.head)
        g  == i + nl
        run == IdRun(text, g + nh)
        e  == g + nh + Len(run)
    IN  /\ e - 1 <= Len(text)
        /\ \A k \in 1..nl : text[i + k - 1] \in pattern.lits[k]
        /\ \A k \in 1..nh : text[g + k - 1] = pattern.head[k]
        /\ Len(run) >= 1
        /\ e + Len(pattern.tail) - 1 <= Len(text)
        /\ \A k \in 1..Len(pattern.tail) : text[e + k - 1] = pattern.tail[k]

\* re.match in place of re.search: a match only at the start of the text.
extract_from_pattern_match(text, pattern) ==
    IF text # <<>> /\ MatchesAt(text, pattern, 1)
    THEN Some(pattern.head \o IdRun(text, 1 + Len(pattern.lits) + Len(pattern.head)))
    ELSE None

\* re.search(pattern, text): the group of the leftmost match, or None.
extract_from_pattern(text, pattern) ==
    LET hits == {i \in 1..Len(text) : MatchesAt(text, pattern, i)}
    IN  IF hits = {} THEN None
        ELSE LET i == CHOOSE h \in hits : \A j \in hits : h <= j
                 g == i + Len(pattern.lits)
             IN  Some(pattern.head \o IdRun(text, g + Len(pattern.head)))

\* ------------------------------------------------------ Identifier Resolver
YOUTUBE_BASE_URL == <<"https://", "www.", "youtube.com">>

\* What the network answers to a page fetch: kind is "ok" (2xx, with the body
\* text), "RequestException" (connection error, timeout, or the HTTPError of
\* raise_for_status) or "Exception" (anything else raised under requests.get).
\* fetch_channel_page returns [exc, value, fetched]: the exception that leaves
\* it ("none" when it returns), its return value, and the URLs it requested.

\* _fetch_channel_page without its `except requests.RequestException`.
fetch_channel_page_uncaught(url, page) ==
    IF page.kind = "ok"
    THEN [exc |-> "none", value |-> Some(page.text), fetched |-> <<url>>]
    ELSE [exc |-> page.kind, value |-> None, fetched |-> <<url>>]

\* _fetch_channel_page(url)
fetch_channel_page(url, page) ==
    IF page.kind = "ok"
    THEN [exc |-> "none", value |-> Some(page.text), fetched |-> <<url>>]
    ELSE IF page.kind = "RequestException"
    THEN [exc |-> "none", value |-> None, fetched |-> <<url>>]
    ELSE [exc |-> page.kind, value |-> None, fetched |-> <<url>>]

\* `if content := ...`: the content is there and is not the empty string.
Truthy(o) == IsSome(o) /\ Get(o) # <<>>

\* The common body of _resolve_username_to_channel_id and
\* _resolve_custom_url_to_channel_id, page_url being the URL each one builds.
resolve_page_to_channel_id(page_url, page) ==
    LET r == fetch_channel_page(page_url, page)
    IN  IF r.exc # "none" THEN r
        ELSE IF Truthy(r.value)
        THEN [exc |-> "none",
              value |-> extract_from_pattern(Get(r.value), BROWSE_ID_PATTERN),
              fetched |-> r.fetched]
        ELSE [exc |-> "none", value |-> None, fetched |-> r.fetched]

resolve_username_to_channel_id(username, page) ==
    resolve_page_to_channel_id(YOUTUBE_BASE_URL \o <<"/", "@">> \o username, page)

resolve_custom_url_to_channel_id(custom_url, page) ==
    resolve_page_to_channel_id(YOUTUBE_BASE_URL \o <<"/", "c", "/">> \o custom_url, page)

\* get_channel_id_from_url(url), page being what the network would answer.
get_channel_id_from_url(url_in, page) ==
    LET url == rstrip_slash(url_in)
        direct == extract_from_pattern(url, CHANNEL_ID_PATTERN)
        username_match == extract_from_pattern(url, HANDLE_PATTERN)
        custom_match == extract_from_pattern(url, CUSTOM_PATTERN)
        user_match == extract_from_pattern(url, USER_PATTERN)
    IN  IF IsSome(direct) THEN [exc |-> "none", value |-> direct, fetched |-> <<>>]
        ELSE IF IsSome(username_match)
        THEN resolve_username_to_channel_id(Get(username_match), page)
        ELSE IF IsSome(custom_match)
        THEN resolve_custom_url_to_channel_id(Get(custom_match), page)
        ELSE IF IsSome(user_match)
        THEN resolve_username_to_channel_id(Get(user_match), page)
        ELSE [exc |-> "none", value |-> None, fetched |-> <<>>]

\* ------------------------------------------------------------- Feed Fetcher
\* A feedparser entry is [yt_videoid, link, title, published, summary], each an
\* Optional (None when entry.get(...) finds no such key).  A ChannelVideo is
\* [video_id, title, url, published_at, description].

\* The published strings pydantic parses into a datetime.
ParseableDates == {"2024-01-15T10:00:00+00:00"}

extract_video_id_from_link(link) ==
    IF \E i \in 1..Len(link) : link[i] = "v="
    THEN Some(BeforeFirst(AfterLast(link, "v="), "&"))
    ELSE IF link # <<>> THEN Some(AfterLast(rstrip_slash(link), "/")) ELSE None

\* `not video_id`: None or the empty string.
Falsy(o) == IsNone(o) \/ Get(o) = <<>>

\* ChannelVideo(...): pydantic refuses None for the str fields video_id and
\* title (url is always a str here) and a published string it cannot parse.
ChannelVideoValid(video_id, title, published) ==
    /\ IsSome(video_id)
    /\ IsSome(title)
    /\ (IsSome(published) => Get(published) \in ParseableDates)

\* A lenient constructor: missing strings become empty, a bad date is dropped.
parse_entry_lenient(entry) ==
    LET link == IF IsSome(entry.link) THEN Get(entry.link) ELSE <<>>
        video_id == IF Falsy(entry.yt_videoid)
                    THEN extract_video_id_from_link(link) ELSE entry.yt_videoid
    IN  [exc |-> "none",
         video |-> [video_id |-> IF IsSome(video_id) THEN Get(video_id) ELSE <<>>,
                    title |-> IF IsSome(entry.title) THEN Get(entry.title) ELSE "",
                    url |-> link,
                    published_at |-> IF IsSome(entry.published)
                                        /\ Get(entry.published) \in ParseableDates
                                     THEN entry.published ELSE None,
                    description |-> entry.summary]]

\* _parse_entry_to_video(entry): [exc, video].
parse_entry_to_video(entry) ==
    LET link == IF IsSome(entry.link) THEN Get(entry.link) ELSE <<>>
        video_id == IF Falsy(entry.yt_videoid)
                    THEN extract_video_id_from_link(link) ELSE entry.yt_videoid
    IN  IF ChannelVideoValid(video_id, entry.title, entry.published)
        THEN [exc |-> "none",
              video |-> [video_id |-> Get(video_id),
                         title |-> Get(entry.title),
                         url |-> link,
                         published_at |-> entry.published,
                         description |-> entry.summary]]
        ELSE [exc |-> "ValidationError", video |-> None]

\* entries[:max_results] taken from the end of the document instead.
SliceLast(entries, max_results) ==
    SubSeq(entries, Len(entries) - Len(PySliceTo(entries, max_results)) + 1, Len(entries))

\* entries[:max_results]
SliceEntries(entries, max_results) == PySliceTo(entries, max_results)

\* fetch_channel_feed stopping at the first entry that fails validation and
\* returning the records made before it.
fetch_channel_feed_partial(feed, max_results) ==
    IF feed.kind # "ok" THEN [exc |-> feed.kind, videos |-> <<>>]
    ELSE LET entries == SliceEntries(feed.entries, max_results)
             parsed == [i \in 1..Len(entries) |-> parse_entry_to_video(entries[i])]
             bad == {i \in 1..Len(entries) : parsed[i].exc # "none"}
             n == IF bad = {} THEN Len(entries)
                  ELSE (CHOOSE i \in bad : \A j \in bad : i <= j) - 1
         IN  [exc |-> "none", videos |-> [i \in 1..n |-> parsed[i].video]]

\* What the network answers to the feed request: kind "ok" with the entries of
\* the parsed document, "RequestException", or "Exception".
\* fetch_channel_feed(channel_id, max_results): [exc, videos].
fetch_channel_feed(feed, max_results) ==
    IF feed.kind # "ok" THEN [exc |-> feed.kind, videos |-> <<>>]
    ELSE LET entries == SliceEntries(feed.entries, max_results)
             parsed == [i \in 1..Len(entries) |-> parse_entry_to_video(entries[i])]
         IN  IF \E i \in 1..Len(entries) : parsed[i].exc # "none"
             THEN [exc |-> "ValidationError", videos |-> <<>>]
             ELSE [exc |-> "none",
                   videos |-> [i \in 1..Len(entries) |-> parsed[i].video]]

\* -------------------------------------------------------- Transcript Fetcher
Langs == {"en", "es"}

\* The languages api.fetch(video_id) asks for when none are passed.
DefaultLanguages == <<"en">>

\* What the provider holds for a video: kind "tracks" with, per language, the
\* caption segments of its track (None: no track), or the condition the client
\* raises: "TranscriptsDisabled", "VideoUnavailable", or "Exception" (anything
\* else).  api_fetch is YouTubeTranscriptApi().fetch(video_id, languages):
\* the track of the first language of `languages` that has one.
api_fetch(provider, languages) ==
    IF provider.kind # "tracks" THEN [exc |-> provider.kind, segments |-> <<>>]
    ELSE LET found == {i \in 1..Len(languages) : IsSome(provider.tracks[languages[i]])}
         IN  IF found = {} THEN [exc |-> "NoTranscriptFound", segments |-> <<>>]
             ELSE LET i == CHOOSE f \in found : \A j \in found : f <= j
                  IN  [exc |-> "none", segments |-> Get(provider.tracks[languages[i]])]

\* get_transcript without its catch-all `except Exception`.
get_transcript_narrow(video_id, provider) ==
    LET f == api_fetch(provider, DefaultLanguages)
    IN  IF f.exc = "none"
        THEN [exc |-> "none", value |-> Some([text |-> JoinNewline(f.segments)]),
              lookups |-> <<video_id>>]
        ELSE IF f.exc \in {"TranscriptsDisabled", "NoTranscriptFound", "VideoUnavailable"}
        THEN [exc |-> "none", value |-> None, lookups |-> <<video_id>>]
        ELSE [exc |-> f.exc, value |-> None, lookups |-> <<video_id>>]

\* YouTubeScraper.get_transcript(video_id): [exc, value, lookups], lookups being
\* the video ids it asked the provider for.
get_transcript(video_id, provider) ==
    LET f == api_fetch(provider, DefaultLanguages)
    IN  IF f.exc = "none"
        THEN [exc |-> "none", value |-> Some([text |-> JoinNewline(f.segments)]),
              lookups |-> <<video_id>>]
        ELSE IF f.exc \in {"TranscriptsDisabled", "NoTranscriptFound", "VideoUnavailable"}
        THEN [exc |-> "none", value |-> None, lookups |-> <<video_id>>]
        ELSE [exc |-> "none", value |-> None, lookups |-> <<video_id>>]

\* The names app/scrapers/youtube_scraper.py binds at module level, and the
\* names app/services/youtube.py imports from it.
ScraperModuleNames ==
    {"logging", "re", "List", "Optional", "datetime", "requests", "feedparser",
     "BaseModel", "YouTubeTranscriptApi", "TranscriptsDisabled", "NoTranscriptFound",
     "VideoUnavailable", "BaseScraper", "logger", "ChannelVideo", "Transcript",
     "YouTubeScraper"}
ServiceImports == {"get_latest_videos", "get_transcript"}

\* get_single_transcript(video_id, languages) of app/services/youtube.py: the
\* module's import fails before the function exists; were the names there, the
\* only get_transcript of the scraper takes no `languages`.
get_single_transcript(video_id, languages, provider) ==
    IF ~(ServiceImports \subseteq ScraperModuleNames)
    THEN [exc |-> "ImportError", value |-> None, lookups |-> <<>>]
    ELSE [exc |-> "TypeError", value |-> None, lookups |-> <<>>]

\* --------------------------------------------------------- Batch Orchestrator
\* The loop body of get_latest_videos without its `except Exception`.
latest_videos_step_narrow(all, r, videos) ==
    IF r.exc = "none" THEN [exc |-> "none", all_videos |-> all \o videos, log |-> "none"]
    ELSE IF r.exc = "RequestException"
    THEN [exc |-> "none", all_videos |-> all, log |-> "warning"]
    ELSE [exc |-> r.exc, all_videos |-> all, log |-> "none"]

\* The loop body of get_latest_videos putting the new records in front.
latest_videos_step_prepend(all, r, videos) ==
    IF r.exc = "none" THEN [exc |-> "none", all_videos |-> videos \o all, log |-> "none"]
    ELSE IF r.exc = "RequestException"
    THEN [exc |-> "none", all_videos |-> all, log |-> "warning"]
    ELSE [exc |-> "none", all_videos |-> all, log |-> "error"]

\* One iteration of the loop of get_latest_videos, r being the outcome of
\* fetch_channel_feed and videos its records: [exc, all_videos, log].
latest_videos_step(all, r, videos) ==
    IF r.exc = "none" THEN [exc |-> "none", all_videos |-> all \o videos, log |-> "none"]
    ELSE IF r.exc = "RequestException"
    THEN [exc |-> "none", all_videos |-> all, log |-> "warning"]
    ELSE [exc |-> "none", all_videos |-> all, log |-> "error"]

\* One element of the comprehension of get_videos_with_transcripts:
\* (video, get_transcript(video.video_id)).
pair_video(video, provider) == get_transcript(video.video_id, provider)

\* The loop body of resolve_channel_ids without its `except Exception`.
resolve_step_uncaught(ids, r) ==
    IF r.exc # "none" THEN [exc |-> r.exc, channel_ids |-> ids]
    ELSE IF IsSome(r.value) /\ Get(r.value) # <<>>
    THEN [exc |-> "none", channel_ids |-> Append(ids, Get(r.value))]
    ELSE [exc |-> "none", channel_ids |-> ids]

\* One iteration of the loop of resolve_channel_ids, r being the outcome of
\* get_channel_id_from_url: [exc, channel_ids].
resolve_step(ids, r) ==
    IF r.exc # "none" THEN [exc |-> "none", channel_ids |-> ids]
    ELSE IF IsSome(r.value) /\ Get(r.value) # <<>>
    THEN [exc |-> "none", channel_ids |-> Append(ids, Get(r.value))]
    ELSE [exc |-> "none", channel_ids |-> ids]

\* max_results_per_channel of the YouTubeScraper that main constructs.
MainCap == 3

\* ------------------------------------------------------------- environment
IsoDate == "2024-01-15T10:00:00+00:00"
WatchLink(id) == <<"https:", "/", "/", "yt", "/", "watch?", "v=">> \o id

FullEntry ==
    [yt_videoid |-> Some(<<"v1">>), link |-> Some(WatchLink(<<"v1">>)),
     title |-> Some("Title"), published |-> Some(IsoDate), summary |-> Some("Summary")]
\* No <yt:videoId>; the link is .../watch?v=XYZ&foo=bar.
LinkQueryEntry ==
    [FullEntry EXCEPT !.yt_videoid = None,
                      !.link = Some(WatchLink(<<"XYZ", "&", "foo=bar">>))]
\* No <yt:videoId>, no v= parameter; the link ends with a path separator.
LinkPathEntry ==
    [FullEntry EXCEPT !.yt_videoid = None,
                      !.link = Some(<<"https:", "/", "/", "yt", "/", "shorts", "/", "abc", "/">>),
                      !.published = None, !.summary = None]
\* No <yt:videoId>; the link is .../watch?v= with nothing after it.
EmptyIdEntry ==
    [FullEntry EXCEPT !.yt_videoid = None, !.link = Some(WatchLink(<<>>))]
\* No <yt:videoId> and no link.
NoIdEntry == [FullEntry EXCEPT !.yt_videoid = None, !.link = None]
NoTitleEntry == [FullEntry EXCEPT !.yt_videoid = Some(<<"v2">>), !.title = None]
BadDateEntry == [FullEntry EXCEPT !.yt_videoid = Some(<<"v3">>), !.published = Some("yesterday")]

\* The entries the feeds of the batch runs are made of.
Entries ==
    {FullEntry, LinkQueryEntry, EmptyIdEntry, NoIdEntry, NoTitleEntry, BadDateEntry}

OkFeed(entries) == [kind |-> "ok", entries |-> entries]
FailedFeeds ==
    {[kind |-> "RequestException", entries |-> <<>>], [kind |-> "Exception", entries |-> <<>>]}
FeedUniverse == {OkFeed(e) : e \in SeqUpTo(Entries, MaxEntries)} \cup FailedFeeds
\* The feed answers considered for the runs of main.
MainFeeds ==
    {OkFeed(<<FullEntry, LinkQueryEntry>>), OkFeed(<<LinkPathEntry>>),
     OkFeed(<<FullEntry, NoTitleEntry>>), [kind |-> "RequestException", entries |-> <<>>]}

EnTrack == Some(<<"hello", "world">>)
EsTrack == Some(<<"hola", "mundo">>)
Tracks(en, es) == [kind |-> "tracks", tracks |-> [l \in Langs |-> IF l = "en" THEN en ELSE es]]
Raising(kind) == [kind |-> kind, tracks |-> [l \in Langs |-> None]]
ProviderUniverse ==
    {Tracks(en, es) : en \in {None, Some(<<>>), EnTrack}, es \in {None, EsTrack}}
    \cup {Raising(k) : k \in {"TranscriptsDisabled", "VideoUnavailable", "Exception"}}
\* The provider answers considered for the batch runs.
BatchProviders ==
    {Tracks(EnTrack, EsTrack), Tracks(None, EsTrack),
     Raising("TranscriptsDisabled"), Raising("VideoUnavailable"), Raising("Exception")}
MainProviders == {Tracks(EnTrack, None), Raising("Exception")}

VideoIds == {<<"v1">>, <<"XYZ">>, <<>>}
LanguageLists == {<<"en">>, <<"en", "es">>, <<"es", "en">>}

Channels == {<<"UC", "x">>, <<"UC", "y">>}
Caps == (0 - 1)..MaxCap

Https(host) == <<"https://", "www.", host>>
\* References with a canonical path segment: prefix/channel/<id><suffix>.
CanonicalCases ==
    {[prefix |-> Https("youtube.com"), id |-> <<"UC", "x">>, suffix |-> <<>>],
     [prefix |-> Https("youtube.com"), id |-> <<"UC", "x">>, suffix |-> <<"/">>],
     [prefix |-> Https("youtube.com"), id |-> <<"UC", "y">>, suffix |-> <<"/", "/">>],
     [prefix |-> Https("youtube.com"), id |-> <<"UC", "x">>, suffix |-> <<"/", "videos">>],
     [prefix |-> <<"youtu.be">>, id |-> <<"HC", "y">>, suffix |-> <<>>],
     [prefix |-> <<"youtu.be">>, id |-> <<"UC", "y">>, suffix |-> <<"/">>]}
CanonicalRef(c) == c.prefix \o <<"/", "channel", "/">> \o c.id \o c.suffix
CanonicalRefs == {CanonicalRef(c) : c \in CanonicalCases}
\* Handle, custom-name and legacy-username references.
LookupRefs ==
    {Https("youtube.com") \o <<"/", "@", "name">>,
     Https("youtube.com") \o <<"/", "@", "name", "/">>,
     Https("youtube.com") \o <<"/", "c", "/", "name">>,
     Https("youtu.be") \o <<"/", "user", "/", "name", "/">>}
OtherRefs ==
    {Https("example.com") \o <<"/", "channel", "/", "UC", "x">>,
     Https("youtube.com") \o <<"/", "videos">>,
     <<"UC", "x">>,
     Https("youtube.com") \o <<"/", "@", "name", "?", "youtube.com", "/", "channel", "/", "UC", "y">>}
RefURLs == CanonicalRefs \cup LookupRefs \cup OtherRefs

BrowseId(v) == <<"browseId:", "QUOTE">> \o v \o <<"QUOTE">>
\* Page bodies in which no "browseId":"UC..." token stands.
NoTokenBodies == {<<>>, <<"<html>">>, BrowseId(<<"HC", "x">>), BrowseId(<<"UC">>)}
PageBodies ==
    NoTokenBodies \cup
    {<<"<html>">> \o BrowseId(<<"UC", "x">>),
     BrowseId(<<"UC", "y">>) \o BrowseId(<<"UC", "x">>)}
PageUniverse ==
    {[kind |-> "ok", text |-> b] : b \in PageBodies}
    \cup {[kind |-> "RequestException", text |-> <<>>], [kind |-> "Exception", text |-> <<>>]}

\* ---------------------------------------------------------------- the state
VARIABLES
    pc,            \* where the run is
    urls,          \* main: channel_urls, the references of the config
    resolve_log,   \* main: per reference processed, what resolution did
    channel_ids,   \* the channel ids given to the scraper
    cap,           \* max_results_per_channel
    feed_log,      \* per channel processed, what the feed request did
    all_videos,    \* get_latest_videos: the accumulated records, each with the
                   \* channel position and entry position it comes from
    pairs,         \* get_videos_with_transcripts: the pairs built so far
    lookup_log,    \* the provider lookups made, with what the provider held
    exit_code,     \* main: its return value (-1 while running)
    results,       \* main: results of runner.run_all(), scraper name -> data
    run,           \* the entry point this run started from
    t_in,          \* a single transcript call: its arguments
    t_out          \* a single transcript call: its outcome

vars ==
    <<pc, urls, resolve_log, channel_ids, cap, feed_log, all_videos, pairs,
      lookup_log, exit_code, results, run, t_in, t_out>>

\* What the network may answer to a feed request, and what the transcript
\* provider may hold for a video, in this run.
NetFeeds == IF run = "main" THEN MainFeeds ELSE FeedUniverse
NetTracks == IF run = "main" THEN MainProviders ELSE BatchProviders

NoCall == [video_id |-> <<>>, languages |-> <<>>, provider |-> Raising("Exception")]
NoOutcome == [via |-> "none", exc |-> "none", value |-> None, lookups |-> <<>>]

Idle ==
    /\ resolve_log = <<>> /\ feed_log = <<>> /\ all_videos = <<>> /\ pairs = <<>>
    /\ lookup_log = <<>> /\ exit_code = 0 - 1 /\ results = <<>>
    /\ t_out = NoOutcome

\* A call of get_videos_with_transcripts(channel_ids, cap).
Init ==
    /\ Idle
    /\ pc = "fetch"
    /\ urls = <<>>
    /\ channel_ids \in SeqUpTo(Channels, MaxChannels)
    /\ cap \in Caps
    /\ run = "batch"
    /\ t_in = NoCall

\* A run of main over the references of the config.
InitMain ==
    /\ Idle
    /\ pc = "main"
    /\ urls \in SeqUpTo(RefURLs, MaxRefs)
    /\ channel_ids = <<>>
    /\ cap = 0
    /\ run = "main"
    /\ t_in = NoCall

\* A single call of the transcript fetcher.
InitTranscript ==
    /\ Idle
    /\ pc = "call"
    /\ urls = <<>>
    /\ channel_ids = <<>>
    /\ cap = 0
    /\ run = "call"
    /\ t_in \in [video_id : VideoIds, languages : LanguageLists, provider : ProviderUniverse]

\* get_latest_videos: one iteration of `for channel_id in channel_ids`.
FetchChannel ==
    /\ pc = "fetch"
    /\ Len(feed_log) < Len(channel_ids)
    /\ \E feed \in NetFeeds :
        LET k == Len(feed_log) + 1
            r == fetch_channel_feed(feed, cap)
            videos == [e \in 1..Len(r.videos) |-> [video |-> r.videos[e], src |-> <<k, e>>]]
            s == latest_videos_step(all_videos, r, videos)
        IN  /\ feed_log' = Append(feed_log,
                   [channel |-> channel_ids[k], feed |-> feed, exc |-> r.exc,
                    returned |-> r.videos, log |-> s.log])
            /\ all_videos' = s.all_videos
            /\ pc' = IF s.exc # "none" THEN "raised" ELSE pc
    /\ UNCHANGED <<urls, resolve_log, channel_ids, cap, pairs, lookup_log, exit_code,
                   results, run, t_in, t_out>>

\* get_latest_videos: `return all_videos`.
LatestReturn ==
    /\ pc = "fetch"
    /\ Len(feed_log) = Len(channel_ids)
    /\ pc' = "transcribe"
    /\ UNCHANGED <<urls, resolve_log, channel_ids, cap, feed_log, all_videos, pairs,
                   lookup_log, exit_code, results, run, t_in, t_out>>

\* get_videos_with_transcripts: one element of the comprehension.
Transcribe ==
    /\ pc = "transcribe"
    /\ Len(pairs) < Len(all_videos)
    /\ \E provider \in NetTracks :
        LET v == all_videos[Len(pairs) + 1]
            r == pair_video(v.video, provider)
        IN  /\ pairs' = Append(pairs,
                   [video |-> v.video, src |-> v.src, transcript |-> r.value])
            /\ lookup_log' = lookup_log \o
                   [i \in 1..Len(r.lookups) |->
                       [video_id |-> r.lookups[i], src |-> v.src, provider |-> provider]]
            /\ pc' = IF r.exc # "none" THEN "raised" ELSE pc
    /\ UNCHANGED <<urls, resolve_log, channel_ids, cap, feed_log, all_videos, exit_code,
                   results, run, t_in, t_out>>

\* get_videos_with_transcripts: the comprehension is complete, the list returned.
BatchReturn ==
    /\ pc = "transcribe"
    /\ Len(pairs) = Len(all_videos)
    /\ pc' = "returned"
    /\ UNCHANGED <<urls, resolve_log, channel_ids, cap, feed_log, all_videos, pairs,
                   lookup_log, exit_code, results, run, t_in, t_out>>

Next == FetchChannel \/ LatestReturn \/ Transcribe \/ BatchReturn

Spec == Init /\ [][Next]_vars

\* main: the config is loaded; `if not channel_urls: return 1`.
MainLoad ==
    /\ pc = "main"
    /\ IF urls = <<>>
       THEN exit_code' = 1 /\ pc' = "exited"
       ELSE exit_code' = exit_code /\ pc' = "resolve"
    /\ UNCHANGED <<urls, resolve_log, channel_ids, cap, feed_log, all_videos, pairs,
                   lookup_log, results, run, t_in, t_out>>

\* resolve_channel_ids: one iteration of `for url in channel_urls`; an
\* exception that leaves it is caught by main, which returns 1.
ResolveStep ==
    /\ pc = "resolve"
    /\ Len(resolve_log) < Len(urls)
    /\ \E page \in PageUniverse :
        LET url == urls[Len(resolve_log) + 1]
            r == get_channel_id_from_url(url, page)
            s == resolve_step(channel_ids, r)
        IN  /\ resolve_log' = Append(resolve_log,
                   [url |-> url, exc |-> r.exc, value |-> r.value, fetched |-> r.fetched,
                    answers |-> [i \in 1..Len(r.fetched) |-> page]])
            /\ channel_ids' = s.channel_ids
            /\ IF s.exc # "none"
               THEN exit_code' = 1 /\ pc' = "exited"
               ELSE exit_code' = exit_code /\ pc' = pc
    /\ UNCHANGED <<urls, cap, feed_log, all_videos, pairs, lookup_log, results,
                   run, t_in, t_out>>

\* main: resolve_channel_ids returned; `if not channel_ids: return 1`, else the
\* scraper is constructed and registered, and runner.run_all() calls its run().
ResolveReturn ==
    /\ pc = "resolve"
    /\ Len(resolve_log) = Len(urls)
    /\ IF channel_ids = <<>>
       THEN exit_code' = 1 /\ pc' = "exited" /\ cap' = cap
       ELSE exit_code' = exit_code /\ pc' = "fetch" /\ cap' = MainCap
    /\ UNCHANGED <<urls, resolve_log, channel_ids, feed_log, all_videos, pairs,
                   lookup_log, results, run, t_in, t_out>>

\* ScraperRunner.run_all and the end of main: a scraper that raised is left out
\* of the results; the results are printed and main returns 0.
RunnerFinish ==
    /\ pc \in {"returned", "raised"}
    /\ results' = IF pc = "returned" THEN <<[name |-> "youtube", data |-> pairs]>> ELSE <<>>
    /\ exit_code' = 0
    /\ pc' = "exited"
    /\ UNCHANGED <<urls, resolve_log, channel_ids, cap, feed_log, all_videos, pairs,
                   lookup_log, run, t_in, t_out>>

NextMain ==
    \/ MainLoad \/ ResolveStep \/ ResolveReturn
    \/ FetchChannel \/ LatestReturn \/ Transcribe \/ BatchReturn
    \/ RunnerFinish

SpecMain == InitMain /\ [][NextMain]_vars

\* YouTubeScraper.get_transcript(video_id), called on its own.
CallGetTranscript ==
    /\ pc = "call"
    /\ LET r == get_transcript(t_in.video_id, t_in.provider)
       IN  t_out' = [via |-> "get_transcript", exc |-> r.exc, value |-> r.value,
                     lookups |-> r.lookups]
    /\ pc' = "done"
    /\ UNCHANGED <<urls, resolve_log, channel_ids, cap, feed_log, all_videos, pairs,
                   lookup_log, exit_code, results, run, t_in>>

\* get_single_transcript(video_id, languages) of app/services/youtube.py.
CallGetSingleTranscript ==
    /\ pc = "call"
    /\ LET r == get_single_transcript(t_in.video_id, t_in.languages, t_in.provider)
       IN  t_out' = [via |-> "get_single_transcript", exc |-> r.exc, value |-> r.value,
                     lookups |-> r.lookups]
    /\ pc' = "done"
    /\ UNCHANGED <<urls, resolve_log, channel_ids, cap, feed_log, all_videos, pairs,
                   lookup_log, exit_code, results, run, t_in>>

NextTranscript == CallGetTranscript \/ CallGetSingleTranscript

SpecTranscript == InitTranscript /\ [][NextTranscript]_vars

\* ================================================================== claims
\* The record a feed entry stands for: what _parse_entry_to_video makes of it.
RecordOf(entry) == parse_entry_to_video(entry).video

\* The positions of `pairs` that come from the channel at position k.
PairsOf(k) == {j \in 1..Len(pairs) : pairs[j].src[1] = k}

\* C1: get_videos_with_transcripts returns and raises nothing whatever each
\* channel's feed request does (success, transport error, other exception);
\* the result holds no video of a channel whose feed fetch failed and every
\* video of a channel whose feed fetch succeeded, wherever the failing channel
\* stands in the list.
C1_FailedChannelsSkipped ==
    /\ pc # "raised"
    /\ (pc = "returned" \/ ENABLED Next)
    /\ pc = "returned" =>
        /\ Len(feed_log) = Len(channel_ids)
        /\ \A k \in 1..Len(feed_log) :
            IF feed_log[k].exc # "none"
            THEN PairsOf(k) = {}
            ELSE \A e \in 1..Len(feed_log[k].returned) :
                    \E j \in PairsOf(k) :
                        /\ pairs[j].src = <<k, e>>
                        /\ pairs[j].video = feed_log[k].returned[e]

\* C1 witness: a returned batch of two channels, one whose feed request raised
\* something that is no transport error and one whose two videos are there.
C1_Witness ==
    /\ pc = "returned"
    /\ Len(feed_log) = 2
    /\ \E k \in {1, 2} :
        /\ feed_log[k].exc = "Exception"
        /\ feed_log[3 - k].exc = "none"
        /\ Cardinality(PairsOf(3 - k)) = 2
        /\ PairsOf(k) = {}

\* Lexicographic order of (channel position, entry position).
SrcBefore(a, b) == a[1] < b[1] \/ (a[1] = b[1] /\ a[2] < b[2])

\* The records returned for the channels of the log, in the order of the log.
RECURSIVE ReturnedConcat(_)
ReturnedConcat(log) ==
    IF log = <<>> THEN <<>>
    ELSE ReturnedConcat(SubSeq(log, 1, Len(log) - 1)) \o
         (IF log[Len(log)].exc = "none" THEN log[Len(log)].returned ELSE <<>>)

\* C2: the result is the concatenation, in the order of the channel-id list,
\* of each fetched channel's records in feed-document order: of two pairs the
\* earlier one comes from an earlier channel, or from the same channel and an
\* earlier entry of its feed.
C2_ChannelThenFeedOrder ==
    /\ \A i, j \in 1..Len(all_videos) :
        i < j => SrcBefore(all_videos[i].src, all_videos[j].src)
    /\ \A j \in 1..Len(pairs) :
        /\ pairs[j].src = all_videos[j].src
        /\ pairs[j].video = RecordOf(feed_log[pairs[j].src[1]].feed.entries[pairs[j].src[2]])
    /\ pc = "returned" =>
        [j \in 1..Len(pairs) |-> pairs[j].video] = ReturnedConcat(feed_log)

\* C2 witness: a returned batch holding two records of each of two channels.
C2_Witness ==
    /\ pc = "returned"
    /\ Len(pairs) = 4
    /\ Cardinality(PairsOf(1)) = 2
    /\ Cardinality(PairsOf(2)) = 2
    /\ pairs[1].video # pairs[2].video

\* C3: with a cap >= 0, fetch_channel_feed returns at most cap records, and
\* they are the records of the first entries of the feed in document order,
\* none skipped; with cap = 0 it returns none.
C3_FeedCappedPrefix ==
    cap >= 0 =>
        \A k \in 1..Len(feed_log) :
            feed_log[k].exc = "none" =>
                LET entries == feed_log[k].feed.entries
                    returned == feed_log[k].returned
                IN  /\ Len(returned) <= cap
                    /\ Len(returned) = IF Len(entries) < cap THEN Len(entries) ELSE cap
                    /\ \A e \in 1..Len(returned) : returned[e] = RecordOf(entries[e])
                    /\ (cap = 0 => returned = <<>>)

\* C3 witness: a feed of two different entries fetched with cap 1.
C3_Witness ==
    /\ cap = 1
    /\ \E k \in 1..Len(feed_log) :
        /\ feed_log[k].exc = "none"
        /\ Len(feed_log[k].feed.entries) = 2
        /\ feed_log[k].feed.entries[1] # feed_log[k].feed.entries[2]
        /\ Len(feed_log[k].returned) = 1

\* Whether a reference was resolved, and the ids of the resolved ones in order.
Resolved(entry) == entry.exc = "none" /\ IsSome(entry.value)
RECURSIVE ResolvedIds(_)
ResolvedIds(log) ==
    IF log = <<>> THEN <<>>
    ELSE ResolvedIds(SubSeq(log, 1, Len(log) - 1)) \o
         (IF Resolved(log[Len(log)]) THEN <<Get(log[Len(log)].value)>> ELSE <<>>)

\* C4: in main, a reference that fails to resolve (no known shape, failed
\* lookup, no token, exception) is dropped without aborting; the others are
\* resolved in their original order and processed.  With two references, the
\* first resolving and yielding 2 videos (cap 3) and the second not resolving,
\* the output holds exactly those 2 videos in feed order; nothing escapes main.
C4_UnresolvedDroppedNotFatal ==
    /\ channel_ids = ResolvedIds(resolve_log)
    /\ pc = "exited" =>
        /\ exit_code \in {0, 1}
        /\ exit_code = 1 =>
            \/ urls = <<>>
            \/ Len(resolve_log) = Len(urls) /\ ResolvedIds(resolve_log) = <<>>
        /\ ResolvedIds(resolve_log) # <<>> =>
            /\ exit_code = 0
            /\ Len(resolve_log) = Len(urls)
            /\ cap = MainCap
            /\ Len(feed_log) = Len(channel_ids)
            /\ \A k \in 1..Len(feed_log) : feed_log[k].channel = channel_ids[k]
            /\ results = <<[name |-> "youtube", data |-> pairs]>>
        /\ ( /\ Len(resolve_log) = 2
             /\ Resolved(resolve_log[1])
             /\ ~Resolved(resolve_log[2])
             /\ feed_log[1].exc = "none"
             /\ Len(feed_log[1].feed.entries) = 2 ) =>
            /\ Len(results[1].data) = 2
            /\ \A e \in {1, 2} :
                results[1].data[e].video = RecordOf(feed_log[1].feed.entries[e])

\* C4 witness: main has returned; the first of two references resolved and its
\* feed gave 2 videos, the second raised during resolution.
C4_Witness ==
    /\ pc = "exited"
    /\ exit_code = 0
    /\ Len(resolve_log) = 2
    /\ Resolved(resolve_log[1])
    /\ resolve_log[2].exc = "Exception"
    /\ Len(feed_log) = 1
    /\ Len(results[1].data) = 2

\* C5: a reference with a canonical path segment .../channel/<id> resolves to
\* that id with no page fetch, trailing path separators or not.
C5_CanonicalNoFetch ==
    \A i \in 1..Len(resolve_log) :
        \A c \in CanonicalCases :
            resolve_log[i].url = CanonicalRef(c) =>
                /\ resolve_log[i].exc = "none"
                /\ resolve_log[i].value = Some(c.id)
                /\ resolve_log[i].fetched = <<>>

\* C5 witness: a canonical reference ending with two path separators was
\* resolved to its id.
C5_Witness ==
    \E i \in 1..Len(resolve_log) :
        \E c \in CanonicalCases :
            /\ c.suffix = <<"/", "/">>
            /\ resolve_log[i].url = CanonicalRef(c)
            /\ resolve_log[i].value = Some(c.id)

\* C6: a handle, custom-name or legacy-username reference causes exactly one
\* page fetch; when that fetch fails with a transport error or the body holds
\* no identifier token, the result is None and nothing is raised.  No
\* reference of any shape causes more than one page fetch.
C6_OneFetchPerLookup ==
    \A i \in 1..Len(resolve_log) :
        LET entry == resolve_log[i]
        IN  /\ Len(entry.fetched) <= 1
            /\ entry.url \in LookupRefs =>
                /\ Len(entry.fetched) = 1
                /\ ( \/ entry.answers[1].kind = "RequestException"
                     \/ ( /\ entry.answers[1].kind = "ok"
                          /\ entry.answers[1].text \in NoTokenBodies ) ) =>
                    /\ entry.exc = "none"
                    /\ entry.value = None

\* C6 witness: a legacy-username reference whose one page fetch failed with a
\* transport error resolved to None.
C6_Witness ==
    \E i \in 1..Len(resolve_log) :
        /\ resolve_log[i].url = Https("youtu.be") \o <<"/", "user", "/", "name", "/">>
        /\ Len(resolve_log[i].fetched) = 1
        /\ resolve_log[i].answers[1].kind = "RequestException"
        /\ resolve_log[i].exc = "none"
        /\ resolve_log[i].value = None

\* Whether the provider client raises for a lookup with the default languages.
ClientRaises(provider) == api_fetch(provider, DefaultLanguages).exc # "none"

\* C7: get_transcript never raises; when the provider client raises (no
\* captions, captions disabled, video unavailable, anything else) the result
\* is None, so the batch still returns the pair of every video.
C7_TranscriptFailuresAbsorbed ==
    /\ pc # "raised"
    /\ Len(lookup_log) = Len(pairs)
    /\ \A i \in 1..Len(lookup_log) :
        ClientRaises(lookup_log[i].provider) => pairs[i].transcript = None
    /\ pc = "returned" =>
        /\ Len(pairs) = Len(all_videos)
        /\ \A j \in 1..Len(pairs) : pairs[j].video = all_videos[j].video

\* C7 witness: a returned batch in which the lookup of the first video raised
\* an unexpected exception, and the second video has its transcript.
C7_Witness ==
    /\ pc = "returned"
    /\ Len(pairs) >= 2
    /\ lookup_log[1].provider.kind = "Exception"
    /\ pairs[1].transcript = None
    /\ IsSome(pairs[2].transcript)

\* The text of the track of the first language of `languages` that has one.
PreferredText(provider, languages) ==
    LET found == {i \in 1..Len(languages) : IsSome(provider.tracks[languages[i]])}
        i == CHOOSE f \in found : \A j \in found : f <= j
    IN  JoinNewline(Get(provider.tracks[languages[i]]))

\* C8: the transcript fetcher follows the caller's language order: asked for
\* ["en", "es"] of a video with a Spanish track only, it returns the Spanish
\* text, segments joined by newlines; in general it returns the track of the
\* first preferred language that has one.
C8_LanguagePreferenceApplied ==
    ( /\ pc = "done"
      /\ t_in.provider.kind = "tracks"
      /\ \E i \in 1..Len(t_in.languages) : IsSome(t_in.provider.tracks[t_in.languages[i]]) ) =>
        /\ t_out.exc = "none"
        /\ t_out.value = Some([text |-> PreferredText(t_in.provider, t_in.languages)])

\* C9: a video with an empty videoId is paired with None and no provider
\* lookup is made for it; the lookups of a batch are as many as its videos
\* with a non-empty videoId.
C9_NoLookupForEmptyVideoId ==
    /\ \A i \in 1..Len(lookup_log) : lookup_log[i].video_id # <<>>
    /\ \A j \in 1..Len(pairs) : pairs[j].video.video_id = <<>> => pairs[j].transcript = None
    /\ pc = "returned" =>
        Len(lookup_log) = Cardinality({j \in 1..Len(pairs) : pairs[j].video.video_id # <<>>})

\* The record the feed fetcher is to make of an entry that lacks fields.
ExpectedRecord(entry) == parse_entry_lenient(entry).video

\* C10: of a fetched feed each of the first cap entries yields one record, also
\* when it lacks fields (no id and empty link: empty videoId; no title: empty
\* title; no parseable date: publishedAt absent); fetch_channel_feed neither
\* raises nor drops the entry, and the other entries stay in the batch result.
C10_AnomalousEntriesKept ==
    \A k \in 1..Len(feed_log) :
        (feed_log[k].feed.kind = "ok" /\ cap >= 0) =>
            LET first == SliceEntries(feed_log[k].feed.entries, cap)
            IN  /\ feed_log[k].exc = "none"
                /\ Len(feed_log[k].returned) = Len(first)
                /\ \A e \in 1..Len(first) : feed_log[k].returned[e] = ExpectedRecord(first[e])
                /\ pc = "returned" =>
                    \A e \in 1..Len(first) : \E j \in PairsOf(k) : pairs[j].src = <<k, e>>

\* Whether a text is the empty string: it has no character in any of its tokens.
TextEmpty(text) == \A i \in 1..Len(text) : text[i] = ""

\* C11: a Transcript in a result of get_transcript or of
\* get_videos_with_transcripts never has the empty string as its text; for a
\* provider track with no caption segment (or only empty ones) the result is
\* None, not a Transcript.
C11_TranscriptTextNonEmpty ==
    /\ \A j \in 1..Len(pairs) :
        IsSome(pairs[j].transcript) => ~TextEmpty(Get(pairs[j].transcript).text)
    /\ (pc = "done" /\ t_out.via = "get_transcript") =>
        /\ IsSome(t_out.value) => ~TextEmpty(Get(t_out.value).text)
        /\ ( /\ t_in.provider.kind = "tracks"
             /\ IsSome(t_in.provider.tracks["en"])
             /\ TextEmpty(JoinNewline(Get(t_in.provider.tracks["en"]))) ) =>
            t_out.value = None

\* The elements of all_videos that come from the channel at position k, in
\* their order.
ChannelBlock(k) ==
    LET FromK(v) == v.src[1] = k
    IN  SelectSeq(all_videos, FromK)

\* How many entries of a feed of n entries the cap lets through: min(cap, n)
\* for a cap >= 0.
CappedCount(entries) ==
    IF cap >= 0 THEN (IF cap < Len(entries) THEN cap ELSE Len(entries))
    ELSE Len(PySliceTo(entries, cap))

\* C12: get_latest_videos is all-or-nothing per channel: at every moment, for
\* every channel already handled, the accumulated list holds either the
\* records of all of the channel's first min(cap, n) feed entries, in order,
\* or no record of it; it holds none when the feed request failed or any one
\* of those entries failed to parse (never a strict prefix), and all of them
\* otherwise, so that a later channel's failure removes nothing.
C12_ChannelAllOrNothing ==
    \A k \in 1..Len(feed_log) :
        LET entries == feed_log[k].feed.entries
            m == CappedCount(entries)
            block == ChannelBlock(k)
            nothing == block = <<>>
            everything ==
                /\ Len(block) = m
                /\ \A e \in 1..m :
                    /\ block[e].src = <<k, e>>
                    /\ block[e].video = RecordOf(entries[e])
            failed ==
                \/ feed_log[k].feed.kind # "ok"
                \/ \E e \in 1..m : parse_entry_to_video(entries[e]).exc # "none"
        IN  /\ nothing \/ everything
            /\ failed => nothing
            /\ ~failed => everything

\* C12 witness: with cap 2, the first channel gave its two records; the second
\* channel's feed has a complete first entry and a second entry without title,
\* its fetch raised, and the accumulated list still holds exactly the two
\* records of the first channel.
C12_Witness ==
    /\ cap = 2
    /\ Len(feed_log) = 2
    /\ feed_log[1].exc = "none"
    /\ Len(feed_log[1].returned) = 2
    /\ feed_log[2].feed = OkFeed(<<FullEntry, NoTitleEntry>>)
    /\ feed_log[2].exc = "ValidationError"
    /\ Len(all_videos) = 2
    /\ Len(ChannelBlock(1)) = 2
    /\ ChannelBlock(2) = <<>>

====
